---- MODULE Spec2Model ----
(***************************************************************************)
(* charmlibs.pathops: ensure_contents and remove_path over the two path    *)
(* backends (LocalPath on the local filesystem, ContainerPath on a Pebble  *)
(* managed container), and the mapping of Pebble errors to Python          *)
(* exceptions.                                                             *)
(*                                                                         *)
(* One filesystem per behaviour; the handle's backend is fixed at Init.    *)
(* Each helper is modelled call by call: one action per backend call it    *)
(* makes, in the order the code makes them.                                *)
(***************************************************************************)
EXTENDS Integers, Sequences, FiniteSets, TLC

\* ----------------------------------------------------------------- records
\* Every record of the model is built by one of these constructors, so that
\* records of one shape always list their fields in one order.

\* The arguments of a helper call.
Args(op, path, source, mode, user, group, recursive) ==
    [op |-> op, path |-> path, source |-> source, mode |-> mode,
     user |-> user, group |-> group, recursive |-> recursive]

\* A node of the filesystem.
MkNode(user, group, kind, perm, data) ==
    [user |-> user, group |-> group, kind |-> kind, perm |-> perm, data |-> data]

\* pebble.FileInfo, as far as ensure_contents reads it.
MkInfo(user, group, permissions) ==
    [user |-> user, group |-> group, permissions |-> permissions]

\* A pebble.Error.
MkError(kind, type, code, message) ==
    [kind |-> kind, type |-> type, code |-> code, message |-> message]

\* What a call of the filesystem answers.
Answer(errno, fs, touched) == [errno |-> errno, fs |-> fs, touched |-> touched]

\* What a helper call remembers of the call before it.
MkPrev(result, same, satisfied) ==
    [result |-> result, same |-> same, satisfied |-> satisfied]

\* The arguments of a call of a path method: mkdir, glob, a comparison.
MkdirArgs(op, path, mode, user, group, parents, exist_ok) ==
    [op |-> op, path |-> path, mode |-> mode, user |-> user, group |-> group,
     parents |-> parents, exist_ok |-> exist_ok]

GlobArgs(op, path, pattern) == [op |-> op, path |-> path, pattern |-> pattern]

CompareArgs(op, left, right) == [op |-> op, left |-> left, right |-> right]

\* A Pebble error handed to the matchers of _errors.py.
ClassifyArgs(op, error) == [op |-> op, error |-> error]

\* ------------------------------------------------------------------ bounds

\* Number of helper calls (ensure_contents, remove_path) in one behaviour.
MaxCalls == 2

\* ---------------------------------------------------------------- constants

\* 0o644, the default of write_bytes / ensure_contents (mode=DEFAULT_WRITE_MODE)
DEFAULT_WRITE_MODE == 420
\* 0o755, the default of mkdir, and the mode of every created parent
DEFAULT_MKDIR_MODE == 493

\* 0o600 and 0o644: the permission bits a file may be asked to have
FileModes == {384, DEFAULT_WRITE_MODE}
\* 0o700 and 0o755: the permission bits a directory may be asked to have
DirModes == {448, DEFAULT_MKDIR_MODE}

\* The user and group the writing process (or the Pebble agent) runs as:
\* what a created file or directory gets when no user/group is asked for.
DefaultUser == "root"
DefaultGroup == "root"
\* user=None / group=None
None == "None"
\* The values a caller passes for user and for group.
UserArgs == {None, "app"}
GroupArgs == {None, "app"}

Contents == {"c1", "c2"}

Backends == {"local", "container"}

\* ------------------------------------------------------------------- paths

\* A path is the sequence of its components below the root "/".
Root == << >>
Paths == { <<"d">>, <<"d", "e">>, <<"d", "e", "f">>, <<"d", "g">> }

\* path.parent: pure decomposition; the root is its own parent.
Parent(p) == IF p = Root THEN Root ELSE SubSeq(p, 1, Len(p) - 1)

\* The proper ancestors of p below the root.
Ancestors(p) == { SubSeq(p, 1, i) : i \in 1 .. (Len(p) - 1) }

IsPrefix(a, p) == Len(a) <= Len(p) /\ SubSeq(p, 1, Len(a)) = a
\* p itself and everything below it.
Subtree(p) == { q \in Paths : IsPrefix(p, q) }
Below(p) == Subtree(p) \ {p}
Children(p) == { q \in Paths : q # Root /\ Parent(q) = p }

\* -------------------------------------------------------------- filesystem

Absent == MkNode("-", "-", "absent", 0, "-")
File(perm, user, group, data) == MkNode(user, group, "file", perm, data)
Dir(perm, user, group) == MkNode(user, group, "dir", perm, "-")
RootDir == Dir(DEFAULT_MKDIR_MODE, DefaultUser, DefaultGroup)

Node(fs, p) == IF p = Root THEN RootDir ELSE fs[p]

EmptyFS == [p \in Paths |-> Absent]

\* What the kernel answers when p is looked up: ENOTDIR when a component of
\* the prefix is not a directory, ENOENT when p (or a prefix) is missing.
Resolve(fs, p) ==
    IF \E a \in Ancestors(p) : fs[a].kind = "file" THEN "ENOTDIR"
    ELSE IF Node(fs, p).kind = "absent" THEN "ENOENT"
    ELSE "ok"

\* Every present node hangs below directories.
WellFormed(fs) ==
    \A p \in Paths : fs[p].kind # "absent" => Node(fs, Parent(p)).kind = "dir"

HasEntries(fs, p) == \E q \in Children(p) : fs[q].kind # "absent"


\* ------------------------------------------------------------ Pebble errors

\* A message is the sequence of its words; `sub in message` is containment
\* of a contiguous run of words.
Contains(message, sub) ==
    \E i \in 0 .. (Len(message) - Len(sub)) :
        SubSeq(message, i + 1, i + Len(sub)) = sub

\* pebble.Error values: PathError(kind, message), APIError(code, message),
\* ConnectionError(message). NoError stands for a call that returned.
PathError(kind, message) == MkError(kind, "PathError", 0, message)
APIError(code, message) == MkError("-", "APIError", code, message)
ConnectionError == MkError("-", "ConnectionError", 0, <<"cannot", "connect", "to", "pebble">>)
NoError == MkError("-", "NoError", 0, << >>)

MsgNoEnt == <<"no", "such", "file", "or", "directory">>
MsgNotEmpty == <<"remove", "directory", "not", "empty">>
MsgNotDir == <<"not", "a", "directory">>
MsgExists == <<"mkdir", "file", "exists">>
MsgOnlyRegular == <<"can", "only", "read", "a", "regular", "file">>
MsgLookup == <<"cannot", "look", "up", "user", "and", "group">>
MsgPerm == <<"permission", "denied">>
MsgBusy == <<"device", "or", "resource", "busy">>
MsgInternal == <<"internal", "server", "error">>
MsgLoop == <<"too", "many", "levels", "of", "symbolic", "links">>
MsgTwo == <<"not", "a", "directory", "file", "exists">>

\* _errors.py: each raise_if_matches_X(error, msg) is TRUE when it raises.
raise_if_matches_file_exists(error) ==
    /\ error.type = "PathError"
    /\ error.kind = "generic-file-error"
    /\ Contains(error.message, <<"file", "exists">>)

\* Mutant: only the APIError 404 is taken for not-found.
raise_if_matches_file_not_found_ApiOnly(error) ==
    error.type = "APIError" /\ error.code = 404

\* Mutant: whatever is no PathError is taken for not-found, too.
raise_if_matches_file_not_found_AlsoUnreachable(error) ==
    \/ error.type \in {"APIError", "ConnectionError"}
    \/ (error.type = "PathError" /\ error.kind = "not-found")

raise_if_matches_file_not_found(error) ==
    \/ (error.type = "APIError" /\ error.code = 404)
    \/ (error.type = "PathError" /\ error.kind = "not-found")

\* Mutant: the kind of the PathError is not looked at.
raise_if_matches_is_a_directory_AnyKind(error) ==
    /\ error.type = "PathError"
    /\ Contains(error.message, <<"can", "only", "read", "a", "regular", "file">>)

raise_if_matches_is_a_directory(error) ==
    /\ error.type = "PathError"
    /\ error.kind = "generic-file-error"
    /\ Contains(error.message, <<"can", "only", "read", "a", "regular", "file">>)

raise_if_matches_lookup(error) ==
    /\ error.type = "PathError"
    /\ error.kind = "generic-file-error"
    /\ Contains(error.message, <<"cannot", "look", "up", "user", "and", "group">>)

matches_not_a_directory(error) ==
    /\ error.type = "PathError"
    /\ error.kind = "generic-file-error"
    /\ Contains(error.message, <<"not", "a", "directory">>)

\* Mutant: the kind is misspelt.
Permission_matches_Misspelt(error) ==
    error.type = "PathError" /\ error.kind = "permission"

Permission_matches(error) ==
    error.type = "PathError" /\ error.kind = "permission-denied"

TooManyLevelsOfSymbolicLinks_matches(error) ==
    /\ error.type = "APIError"
    /\ error.code = 400
    /\ Contains(error.message, <<"too", "many", "levels", "of", "symbolic", "links">>)

\* Called by _remove_container_path; not defined in _errors.py as given.
raise_if_matches_directory_not_empty(error) ==
    /\ error.type = "PathError"
    /\ error.kind = "generic-file-error"
    /\ Contains(error.message, <<"directory", "not", "empty">>)

\* Called by _remove_container_path; wraps Permission.matches.
raise_if_matches_permission(error) == Permission_matches(error)

\* The exception a caller sees for a Pebble error none of the matchers took:
\* the pebble error itself, named by its class.
Raw(error) == error.type


\* ------------------------------------------------- the filesystem's calls
\* Both backends end in a POSIX filesystem: the local kernel, or the one the
\* Pebble agent runs on. A call's answer is an errno ("ok" when it worked),
\* the filesystem after it, and the paths it touched (node or mtime changed).

is_dir(fs, p) == Resolve(fs, p) = "ok" /\ Node(fs, p).kind = "dir"
exists(fs, p) == Resolve(fs, p) = "ok"

Touch(p) == {p, Parent(p)} \ {Root}

\* stat(p)
OsStat(fs, p) == Answer(Resolve(fs, p), fs, {})

\* open(p, 'rb').read()
OsRead(fs, p) ==
    Answer(IF Resolve(fs, p) # "ok" THEN Resolve(fs, p)
           ELSE IF Node(fs, p).kind = "dir" THEN "EISDIR"
           ELSE "ok", fs, {})

\* mkdir(p, mode), then chown when a user or group is given
OsMkdir(fs, p, mode, user, group) ==
    IF p = Root THEN Answer("EEXIST", fs, {})
    ELSE IF Resolve(fs, p) = "ENOTDIR" THEN Answer("ENOTDIR", fs, {})
    ELSE IF fs[p].kind # "absent" THEN Answer("EEXIST", fs, {})
    ELSE IF Node(fs, Parent(p)).kind = "absent" THEN Answer("ENOENT", fs, {})
    ELSE Answer("ok",
                [fs EXCEPT ![p] = Dir(mode,
                                      IF user = None THEN DefaultUser ELSE user,
                                      IF group = None THEN DefaultGroup ELSE group)],
                Touch(p))

\* Path.mkdir(mode, parents, exist_ok, user=, group=): created parents get the
\* default mode and no ownership; only the leaf gets mode, user and group.
RECURSIVE mkdir(_, _, _, _, _, _, _)

\* Mutant: exist_ok is not looked at.
mkdir_NoExistOk(fs, p, mode, parents, exist_ok, user, group) ==
    LET r == OsMkdir(fs, p, mode, user, group) IN
    IF r.errno # "ENOENT" \/ ~parents \/ Parent(p) = p THEN r
    ELSE LET up == mkdir(fs, Parent(p), DEFAULT_MKDIR_MODE, TRUE, TRUE, None, None)
             leaf == OsMkdir(up.fs, p, mode, user, group)
         IN  IF up.errno # "ok" THEN up
             ELSE Answer(leaf.errno, leaf.fs, up.touched \cup leaf.touched)

\* Mutant: missing parents are created whatever `parents` says.
mkdir_AlwaysParents(fs, p, mode, parents, exist_ok, user, group) ==
    LET r == OsMkdir(fs, p, mode, user, group) IN
    IF r.errno = "ok" THEN r
    ELSE IF r.errno = "ENOENT" THEN
        LET up == mkdir(fs, Parent(p), DEFAULT_MKDIR_MODE, TRUE, TRUE, None, None)
            leaf == OsMkdir(up.fs, p, mode, user, group)
        IN  IF up.errno # "ok" THEN up
            ELSE Answer(leaf.errno, leaf.fs, up.touched \cup leaf.touched)
    ELSE IF ~exist_ok \/ ~is_dir(fs, p) THEN r
    ELSE Answer("ok", fs, {})

\* Path.mkdir(mode, parents, exist_ok, user=, group=)
mkdir(fs, p, mode, parents, exist_ok, user, group) ==
    LET r == OsMkdir(fs, p, mode, user, group) IN
    IF r.errno = "ok" THEN r
    ELSE IF r.errno = "ENOENT" THEN
        IF ~parents \/ Parent(p) = p THEN r
        ELSE LET up == mkdir(fs, Parent(p), DEFAULT_MKDIR_MODE, TRUE, TRUE, None, None) IN
             IF up.errno # "ok" THEN up
             ELSE LET leaf == mkdir(up.fs, p, mode, FALSE, exist_ok, user, group) IN
                  Answer(leaf.errno, leaf.fs, up.touched \cup leaf.touched)
    ELSE IF ~exist_ok \/ ~is_dir(fs, p) THEN r
    ELSE Answer("ok", fs, {})

\* The owner a write leaves when none is asked for: a new file belongs to
\* the writing process; the local backend rewrites an existing file in
\* place (owner kept), Pebble replaces it by a new one.
OwnerAfterWrite(backend, rewritten, old, asked, default) ==
    IF asked # None THEN asked
    ELSE IF backend = "local" /\ rewritten THEN old
    ELSE default

\* write_bytes(data, mode=, user=, group=): create or overwrite p, set its
\* permission bits and, when given, its owner and group.
OsWrite(backend, fs, p, data, mode, user, group) ==
    IF Resolve(fs, p) = "ENOTDIR" THEN Answer("ENOTDIR", fs, {})
    ELSE IF Node(fs, Parent(p)).kind = "absent" THEN Answer("ENOENT", fs, {})
    ELSE IF fs[p].kind = "dir" THEN Answer("EISDIR", fs, {})
    ELSE Answer("ok",
                [fs EXCEPT ![p] =
                    File(mode,
                         OwnerAfterWrite(backend, fs[p].kind = "file", fs[p].user,
                                         user, DefaultUser),
                         OwnerAfterWrite(backend, fs[p].kind = "file", fs[p].group,
                                         group, DefaultGroup),
                         data)],
                IF fs[p].kind = "absent" THEN Touch(p) ELSE {p})

\* The filesystem without the nodes of `gone`.
Without(fs, gone) == [q \in Paths |-> IF q \in gone THEN Absent ELSE fs[q]]

\* unlink(p)
OsUnlink(fs, p) ==
    IF Resolve(fs, p) # "ok" THEN Answer(Resolve(fs, p), fs, {})
    ELSE IF Node(fs, p).kind = "dir" THEN Answer("EISDIR", fs, {})
    ELSE Answer("ok", Without(fs, {p}), Touch(p))

\* rmdir(p)
OsRmdir(fs, p) ==
    IF Resolve(fs, p) # "ok" THEN Answer(Resolve(fs, p), fs, {})
    ELSE IF Node(fs, p).kind # "dir" THEN Answer("ENOTDIR", fs, {})
    ELSE IF HasEntries(fs, p) THEN Answer("ENOTEMPTY", fs, {})
    ELSE Answer("ok", Without(fs, {p}), Touch(p))

\* shutil.rmtree(p)
OsRmtree(fs, p) ==
    IF Resolve(fs, p) # "ok" THEN Answer(Resolve(fs, p), fs, {})
    ELSE IF Node(fs, p).kind # "dir" THEN Answer("ENOTDIR", fs, {})
    ELSE Answer("ok", Without(fs, Subtree(p)),
                { q \in Subtree(p) : fs[q].kind # "absent" } \cup Touch(p))

\* The agent's remove: os.Remove (a file or an empty directory), or with
\* recursive os.RemoveAll (the whole tree; a missing path is no error).
OsRemove(fs, p, recursive) ==
    IF Resolve(fs, p) = "ENOTDIR" THEN Answer("ENOTDIR", fs, {})
    ELSE IF Resolve(fs, p) = "ENOENT"
        THEN Answer(IF recursive THEN "ok" ELSE "ENOENT", fs, {})
    ELSE IF Node(fs, p).kind = "file" THEN OsUnlink(fs, p)
    ELSE IF recursive THEN OsRmtree(fs, p)
    ELSE OsRmdir(fs, p)

\* The OSError subclass Python raises for an errno.
OSErrorOf(errno) ==
    CASE errno = "ENOENT" -> "FileNotFoundError"
      [] errno = "ENOTDIR" -> "NotADirectoryError"
      [] errno = "EISDIR" -> "IsADirectoryError"
      [] errno = "EEXIST" -> "FileExistsError"
      [] errno = "EACCES" -> "PermissionError"
      [] errno = "ENOTEMPTY" -> "DirectoryNotEmptyError"
      [] OTHER -> "ok"

\* The error the Pebble client raises for an errno of the agent. A missing
\* path is an APIError 404 from list_files and a not-found PathError from
\* the calls that answer per path.
PebbleErrorOf(errno, call) ==
    CASE errno = "ENOENT" ->
            IF call = "list_files" THEN APIError(404, MsgNoEnt)
            ELSE PathError("not-found", MsgNoEnt)
      [] errno = "ENOTDIR" -> PathError("generic-file-error", MsgNotDir)
      [] errno = "EISDIR" -> PathError("generic-file-error", MsgOnlyRegular)
      [] errno = "EEXIST" -> PathError("generic-file-error", MsgExists)
      [] errno = "EACCES" -> PathError("permission-denied", MsgPerm)
      [] errno = "ENOTEMPTY" -> PathError("generic-file-error", MsgNotEmpty)
      [] OTHER -> NoError


\* ------------------------------------------------------ failures from outside
\* A backend call can also fail for a reason the modelled tree does not
\* decide; the filesystem is then as before the call.
\*   perm      the caller may not do this
\*   conn      the Pebble agent cannot be reached
\*   api       the agent answers with an HTTP error
\*   busy      the agent's remove of an existing path fails with another
\*             errno (EBUSY)
\*   notfound  the agent reports a missing path it was asked to remove as
\*             not-found, whatever the recursive flag
Faults(b, call) ==
    IF b = "local" THEN {"none", "perm"}
    ELSE {"none", "perm", "conn", "api"}
         \cup (IF call = "remove_path" THEN {"busy", "notfound"} ELSE {})

FaultError(fault) ==
    CASE fault = "perm" -> PathError("permission-denied", MsgPerm)
      [] fault = "conn" -> ConnectionError
      [] fault = "api" -> APIError(500, MsgInternal)
      [] fault = "busy" -> PathError("generic-file-error", MsgBusy)
      [] fault = "notfound" -> PathError("not-found", MsgNoEnt)
      [] OTHER -> NoError

\* What the agent answers to `call`: the injected failure, or the error of
\* the errno its filesystem gave.
PebbleReply(fault, errno, call) ==
    IF fault # "none" THEN FaultError(fault) ELSE PebbleErrorOf(errno, call)

\* ContainerPath's methods and _fileinfo.from_container_path hand every
\* Pebble error to the matchers of _errors.py; what none of them takes is
\* raised as it came.
ContainerPathRaises(error) ==
    IF error.type = "NoError" THEN "ok"
    ELSE IF raise_if_matches_file_not_found(error) THEN "FileNotFoundError"
    ELSE IF Permission_matches(error) THEN "PermissionError"
    ELSE IF matches_not_a_directory(error) THEN "NotADirectoryError"
    ELSE IF raise_if_matches_is_a_directory(error) THEN "IsADirectoryError"
    ELSE IF raise_if_matches_lookup(error) THEN "LookupError"
    ELSE IF raise_if_matches_file_exists(error) THEN "FileExistsError"
    ELSE Raw(error)

\* The exception a path method raises on backend b ("ok": it returned).
Raises(b, call, errno, fault) ==
    IF b = "local"
        THEN (IF fault = "perm" THEN "PermissionError" ELSE OSErrorOf(errno))
    ELSE ContainerPathRaises(PebbleReply(fault, errno, call))

\* ------------------------------------------------------------------- state

VARIABLES
    backend,   \* "local": the path is a LocalPath; "container": a ContainerPath
    fs,        \* the filesystem behind the backend
    call,      \* the helper call in progress or last finished, with its arguments
    pc,        \* where that call stands; "done" when it has returned or raised
    info,      \* ensure_contents: the FileInfo of _get_fileinfo
    result,    \* "True" / "False" / "None", or the exception raised; "-" while running
    log,       \* the backend calls this helper call has made, in order
    touched,   \* the paths whose node or mtime this helper call changed
    pre,       \* the filesystem when this helper call began
    fault,     \* the outside failure of this call's last backend call ("none": there
               \* was none)
    prev,      \* the call before this one: its result, whether its arguments were the
               \* same, and whether the file already was as asked when it began
    ncalls,    \* helper calls begun
    rival,     \* what another process did to call.path during this call:
               \* <<where the call stood, the content written or "removed">>, or << >>
    yielded    \* what the last call of a path method yielded: the paths of a glob,
               \* the kinds the matchers gave an error

vars == <<backend, fs, call, pc, info, result, log, touched, pre, fault, prev, ncalls,
          rival, yielded>>

NoCall == Args("none", Root, "-", 0, None, None, FALSE)
EnsureArgs(p, source, mode, user, group) ==
    Args("ensure_contents", p, source, mode, user, group, FALSE)
RemoveArgs(p, recursive) == Args("remove_path", p, "-", 0, None, None, recursive)

NoInfo == MkInfo("-", "-", 0)
FileInfo(node) == MkInfo(node.user, node.group, node.perm)

\* The node at args.path is a file with the content, permission bits and,
\* where asked for, the owner and group of an ensure_contents request.
Satisfies(tree, args) ==
    /\ Resolve(tree, args.path) = "ok"
    /\ Node(tree, args.path).kind = "file"
    /\ Node(tree, args.path).data = args.source
    /\ Node(tree, args.path).perm = args.mode
    /\ (args.user # None => Node(tree, args.path).user = args.user)
    /\ (args.group # None => Node(tree, args.path).group = args.group)

\* Filesystems a behaviour may start from.
TreeFS ==
    [EmptyFS EXCEPT ![<<"d">>] = Dir(DEFAULT_MKDIR_MODE, "root", "root"),
                    ![<<"d", "e">>] = Dir(448, "app", "app"),
                    ![<<"d", "e", "f">>] = File(384, "root", "root", "c1"),
                    ![<<"d", "g">>] = File(DEFAULT_WRITE_MODE, "app", "app", "c2")]
FileFS == [EmptyFS EXCEPT ![<<"d">>] = File(DEFAULT_WRITE_MODE, "root", "root", "c1")]
DirFS ==
    [EmptyFS EXCEPT ![<<"d">>] = Dir(448, "app", "root"),
                    ![<<"d", "e">>] = Dir(DEFAULT_WRITE_MODE, "root", "root")]
InitFS == {EmptyFS, TreeFS, FileFS, DirFS}

Init ==
    /\ backend \in Backends
    /\ fs \in InitFS
    /\ call = NoCall
    /\ pc = "done"
    /\ info = NoInfo
    /\ result = "-"
    /\ log = << >>
    /\ touched = {}
    /\ pre = fs
    /\ fault = "none"
    /\ prev = MkPrev("-", FALSE, FALSE)
    /\ ncalls = 0
    /\ rival = << >>
    /\ yielded = {}

\* A helper call begins.
Begin(args, first) ==
    /\ pc = "done"
    /\ ncalls < MaxCalls
    /\ call' = args
    /\ pc' = first
    /\ info' = NoInfo
    /\ result' = "-"
    /\ log' = << >>
    /\ touched' = {}
    /\ pre' = fs
    /\ fault' = "none"
    /\ prev' = MkPrev(result, call = args, Satisfies(pre, call))
    /\ ncalls' = ncalls + 1
    /\ rival' = << >>
    /\ UNCHANGED <<backend, fs, yielded>>

\* The call returns `value` or raises it.
Finish(value, f) ==
    /\ pc' = "done"
    /\ result' = value
    /\ fault' = f

\* The call goes on to its next backend call.
Goto(next, f) ==
    /\ pc' = next
    /\ fault' = f
    /\ UNCHANGED result

\* ---------------------------------------------------------- ensure_contents

\* Mutant: the parent is made before the path is looked at.
ensure_contents_MkdirFirst(p, source, mode, user, group) ==
    Begin(EnsureArgs(p, source, mode, user, group), "mkdir")

ensure_contents(p, source, mode, user, group) ==
    Begin(EnsureArgs(p, source, mode, user, group), "stat")

\* Mutant: the owner and the group are compared also when none is given.
MetadataMatches_AlwaysOwner(i, mode, user, group) ==
    /\ i.permissions = mode
    /\ i.user = user
    /\ i.group = group

\* Mutant: the owner and the group are never compared.
MetadataMatches_NeverOwner(i, mode, user, group) == i.permissions = mode

\* Mutant: the permission bits are not compared.
MetadataMatches_NoPerm(i, mode, user, group) ==
    /\ (user = None \/ i.user = user)
    /\ (group = None \/ i.group = group)

\* The comparison of ensure_contents before it reads the file.
MetadataMatches(i, mode, user, group) ==
    /\ i.permissions = mode
    /\ (user = None \/ i.user = user)
    /\ (group = None \/ i.group = group)

\* Mutant: the content is read but not compared.
ContentMatches_Always(data, source) == TRUE

\* path.read_bytes() == source
ContentMatches(data, source) == data = source

\* Mutant: the write is reported as no change.
ReturnAfterWrite_False == "False"

\* return True, after the write
ReturnAfterWrite == "True"

\* Mutant: the except clause takes every exception.
except_FileNotFoundError_Bare(exc) == exc # "ok"

\* except FileNotFoundError: pass
except_FileNotFoundError(exc) == exc = "FileNotFoundError"

\* info = _get_fileinfo(path), and the metadata half of the comparison
EnsureStat(f) ==
    /\ pc = "stat"
    /\ LET a == OsStat(fs, call.path)
           exc == Raises(backend, "list_files", a.errno, f)
       IN  /\ log' = Append(log, "stat")
           /\ IF except_FileNotFoundError(exc)
                  THEN Goto("mkdir", f) /\ info' = NoInfo
              ELSE IF exc # "ok"
                  THEN Finish(exc, f) /\ info' = NoInfo
              ELSE /\ info' = FileInfo(Node(fs, call.path))
                   /\ IF MetadataMatches(FileInfo(Node(fs, call.path)),
                                         call.mode, call.user, call.group)
                          THEN Goto("read", f)
                          ELSE Goto("mkdir", f)
    /\ UNCHANGED <<backend, fs, call, touched, pre, prev, ncalls, rival, yielded>>

\* path.read_bytes() == source
EnsureRead(f) ==
    /\ pc = "read"
    /\ LET a == OsRead(fs, call.path)
           exc == Raises(backend, "pull", a.errno, f)
       IN  /\ log' = Append(log, "read")
           /\ IF exc # "ok" THEN Finish(exc, f)
              ELSE IF ContentMatches(Node(fs, call.path).data, call.source)
                  THEN Finish("False", f)
              ELSE Goto("mkdir", f)
    /\ UNCHANGED <<backend, fs, call, info, touched, pre, prev, ncalls, rival, yielded>>

\* Mutant: path.parent.mkdir(exist_ok=True), without parents.
EnsureMkdir_NoParents(f) ==
    /\ pc = "mkdir"
    /\ LET a == mkdir(fs, Parent(call.path), DEFAULT_MKDIR_MODE, FALSE, TRUE, None, None)
           exc == Raises(backend, "make_dir", a.errno, f)
       IN  /\ log' = Append(log, "mkdir")
           /\ IF exc # "ok"
                  THEN Finish(exc, f) /\ UNCHANGED <<fs, touched>>
                  ELSE /\ Goto("write", f)
                       /\ fs' = a.fs
                       /\ touched' = touched \cup a.touched
    /\ UNCHANGED <<backend, call, info, pre, prev, ncalls, rival, yielded>>

\* path.parent.mkdir(parents=True, exist_ok=True)
EnsureMkdir(f) ==
    /\ pc = "mkdir"
    /\ LET a == mkdir(fs, Parent(call.path), DEFAULT_MKDIR_MODE, TRUE, TRUE, None, None)
           exc == Raises(backend, "make_dir", a.errno, f)
       IN  /\ log' = Append(log, "mkdir")
           /\ IF exc # "ok"
                  THEN Finish(exc, f) /\ UNCHANGED <<fs, touched>>
                  ELSE /\ Goto("write", f)
                       /\ fs' = a.fs
                       /\ touched' = touched \cup a.touched
    /\ UNCHANGED <<backend, call, info, pre, prev, ncalls, rival, yielded>>

\* Mutant: the write is given up when the path is no longer as the call
\* found it.
EnsureWrite_Guarded(f) ==
    /\ pc = "write"
    /\ log' = Append(log, "write")
    /\ IF fs[call.path] # pre[call.path]
           THEN Finish("BlockingIOError", f) /\ UNCHANGED <<fs, touched>>
           ELSE LET a == OsWrite(backend, fs, call.path, call.source, call.mode,
                                 call.user, call.group)
                IN  /\ Finish(IF a.errno = "ok" THEN "True"
                                ELSE Raises(backend, "push", a.errno, f), f)
                    /\ fs' = a.fs
                    /\ touched' = touched \cup a.touched
    /\ UNCHANGED <<backend, call, info, pre, prev, ncalls, rival, yielded>>

\* path.write_bytes(source, mode=mode, user=user, group=group); return True
EnsureWrite(f) ==
    /\ pc = "write"
    /\ LET a == OsWrite(backend, fs, call.path, call.source, call.mode, call.user, call.group)
           exc == Raises(backend, "push", a.errno, f)
       IN  /\ log' = Append(log, "write")
           /\ IF exc # "ok"
                  THEN Finish(exc, f) /\ UNCHANGED <<fs, touched>>
                  ELSE /\ Finish(ReturnAfterWrite, f)
                       /\ fs' = a.fs
                       /\ touched' = touched \cup a.touched
    /\ UNCHANGED <<backend, call, info, pre, prev, ncalls, rival, yielded>>


\* -------------------------------------------------------------- remove_path

\* remove_path dispatches on the handle: a ContainerPath makes the one
\* Pebble call; a local path starts at `recursive and not path.exists()`,
\* which asks exists() only when recursive.
remove_path(p, recursive) ==
    Begin(RemoveArgs(p, recursive),
          IF backend = "container" THEN "remove_path"
          ELSE IF recursive THEN "exists" ELSE "is_dir")

\* Mutant: of the three matchers only the not-found one is tried.
remove_container_path_raises_NotFoundOnly(error) ==
    IF error.type = "NoError" THEN "None"
    ELSE IF error.type # "PathError" THEN Raw(error)
    ELSE IF raise_if_matches_file_not_found(error) THEN "FileNotFoundError"
    ELSE Raw(error)

\* _remove_container_path's except clause: only a PathError is caught, the
\* three matchers are tried in order, and what is left is raised again.
remove_container_path_raises(error) ==
    IF error.type = "NoError" THEN "None"
    ELSE IF error.type # "PathError" THEN Raw(error)
    ELSE IF raise_if_matches_directory_not_empty(error) THEN "DirectoryNotEmptyError"
    ELSE IF raise_if_matches_file_not_found(error) THEN "FileNotFoundError"
    ELSE IF raise_if_matches_permission(error) THEN "PermissionError"
    ELSE Raw(error)

\* path._container.remove_path(path._path, recursive=recursive)
RemoveContainer(f) ==
    /\ pc = "remove_path"
    /\ f = "notfound" => Resolve(fs, call.path) = "ENOENT"
    /\ f = "busy" => exists(fs, call.path)
    /\ LET a == OsRemove(fs, call.path, call.recursive)
           reply == PebbleReply(f, a.errno, "remove_path")
       IN  /\ log' = Append(log, "remove_path")
           /\ Finish(remove_container_path_raises(reply), f)
           /\ fs' = IF reply.type = "NoError" THEN a.fs ELSE fs
           /\ touched' = IF reply.type = "NoError" THEN a.touched ELSE {}
    /\ UNCHANGED <<backend, call, info, pre, prev, ncalls, rival, yielded>>

\* The outcome of a local filesystem call that ends _remove_pathlib_path.
LocalLast(a, f, name) ==
    LET exc == Raises("local", name, a.errno, f) IN
    /\ log' = Append(log, name)
    /\ Finish(IF exc = "ok" THEN "None" ELSE exc, f)
    /\ fs' = IF exc = "ok" THEN a.fs ELSE fs
    /\ touched' = IF exc = "ok" THEN a.touched ELSE {}
    /\ UNCHANGED <<backend, call, info, pre, prev, ncalls, rival, yielded>>

\* Mutant: the test of exists() is inverted.
AlreadyGone_Inverted(recursive, there) == recursive /\ there

\* recursive and not path.exists()
AlreadyGone(recursive, there) == recursive /\ ~there

\* Mutant: a directory is always removed as a tree.
LocalRemoveCall_AlwaysTree(isdir, recursive) ==
    IF ~isdir THEN "unlink" ELSE "rmtree"

\* The call that ends _remove_pathlib_path: unlink for what is no directory,
\* rmdir for a directory when not recursive, rmtree otherwise.
LocalRemoveCall(isdir, recursive) ==
    IF ~isdir THEN "unlink"
    ELSE IF ~recursive THEN "rmdir"
    ELSE "rmtree"

\* if recursive and not path.exists(): return
RemoveExists(f) ==
    /\ pc = "exists"
    /\ log' = Append(log, "exists")
    /\ IF f = "perm" THEN Finish("PermissionError", f)
       ELSE IF AlreadyGone(call.recursive, exists(fs, call.path)) THEN Finish("None", f)
       ELSE Goto("is_dir", f)
    /\ UNCHANGED <<backend, fs, call, info, touched, pre, prev, ncalls, rival, yielded>>

\* if not path.is_dir(): unlink; elif not recursive: rmdir; else rmtree
RemoveIsDir(f) ==
    /\ pc = "is_dir"
    /\ log' = Append(log, "is_dir")
    /\ IF f = "perm" THEN Finish("PermissionError", f)
       ELSE Goto(LocalRemoveCall(is_dir(fs, call.path), call.recursive), f)
    /\ UNCHANGED <<backend, fs, call, info, touched, pre, prev, ncalls, rival, yielded>>

\* return path.unlink()
RemoveUnlink(f) == pc = "unlink" /\ LocalLast(OsUnlink(fs, call.path), f, "unlink")

\* return path.rmdir()
RemoveRmdir(f) == pc = "rmdir" /\ LocalLast(OsRmdir(fs, call.path), f, "rmdir")

\* shutil.rmtree(path)
RemoveRmtree(f) == pc = "rmtree" /\ LocalLast(OsRmtree(fs, call.path), f, "rmtree")

\* ------------------------------------------------------- another process
\* Callers are not coordinated: while ensure_contents stands between two of
\* its backend calls, another process may write its path (here at most once
\* per call, with the defaults of write_bytes).
RivalWrite(data) ==
    /\ pc \in {"stat", "read", "mkdir", "write"}
    /\ rival = << >>
    /\ LET a == OsWrite(backend, fs, call.path, data, DEFAULT_WRITE_MODE, None, None)
       IN  a.errno = "ok" /\ fs' = a.fs
    /\ rival' = <<pc, data>>
    /\ UNCHANGED <<backend, call, pc, info, result, log, touched, pre, fault, prev,
                   ncalls, yielded>>

\* ------------------------------------------------------------ specification

Next ==
    \/ \E p \in Paths, source \in Contents, mode \in FileModes,
          user \in UserArgs, group \in GroupArgs :
            ensure_contents(p, source, mode, user, group)
    \/ \E f \in Faults(backend, "list_files") : EnsureStat(f)
    \/ \E f \in Faults(backend, "pull") : EnsureRead(f)
    \/ \E f \in Faults(backend, "make_dir") : EnsureMkdir(f)
    \/ \E f \in Faults(backend, "push") : EnsureWrite(f)
    \/ \E p \in Paths, recursive \in BOOLEAN : remove_path(p, recursive)
    \/ \E f \in Faults(backend, "remove_path") : RemoveContainer(f)
    \/ \E f \in Faults(backend, "exists") : RemoveExists(f)
    \/ \E f \in Faults(backend, "is_dir") : RemoveIsDir(f)
    \/ \E f \in Faults(backend, "unlink") : RemoveUnlink(f)
    \/ \E f \in Faults(backend, "rmdir") : RemoveRmdir(f)
    \/ \E f \in Faults(backend, "rmtree") : RemoveRmtree(f)

Spec == Init /\ [][Next]_vars

\* The helpers next to another process that writes.
NextRace ==
    \/ Next
    \/ \E data \in Contents : RivalWrite(data)

SpecRace == Init /\ [][NextRace]_vars

\* While _remove_pathlib_path stands between two of its filesystem calls,
\* another process may remove the path or a tree below it (here at most
\* once per call).
RivalRemove(q) ==
    /\ pc \in {"is_dir", "unlink", "rmdir", "rmtree"}
    /\ Len(log) > 0
    /\ rival = << >>
    /\ q \in Subtree(call.path)
    /\ exists(fs, q)
    /\ fs' = Without(fs, Subtree(q))
    /\ rival' = <<pc, "removed">>
    /\ UNCHANGED <<backend, call, pc, info, result, log, touched, pre, fault, prev,
                   ncalls, yielded>>

\* The helpers next to another process that removes.
NextRemoveRace ==
    \/ Next
    \/ \E q \in Paths : RivalRemove(q)

SpecRemoveRace == Init /\ [][NextRemoveRace]_vars

\* ------------------------------------------------------------ path methods
\* The methods of PathProtocol, each call as one step: mkdir, glob and the
\* comparisons.

\* A call of a path method: its arguments, what it returned or raised, the
\* filesystem after it and what it yielded.
MethodCall(args, value, after, out, trace, f) ==
    /\ pc = "done"
    /\ ncalls < MaxCalls
    /\ call' = args
    /\ pre' = fs
    /\ prev' = MkPrev(result, call = args, FALSE)
    /\ result' = value
    /\ fs' = after
    /\ yielded' = out
    /\ log' = trace
    /\ fault' = f
    /\ ncalls' = ncalls + 1
    /\ UNCHANGED <<backend, pc, info, touched, rival>>

\* path.mkdir(mode, parents, exist_ok, user=user, group=group)
Path_mkdir(p, mode, parents, exist_ok, user, group, f) ==
    LET a == mkdir(fs, p, mode, parents, exist_ok, user, group)
        exc == Raises(backend, "make_dir", a.errno, f)
    IN  MethodCall(MkdirArgs("mkdir", p, mode, user, group, parents, exist_ok),
                   IF exc = "ok" THEN "None" ELSE exc,
                   IF exc = "ok" THEN a.fs ELSE fs,
                   {}, <<"mkdir">>, f)

\* A pattern is the sequence of its segments; an absolute pattern begins
\* with the segment "/".
Patterns == { <<"/">>, <<"/", "d">>, <<"/", "*">>, <<"*">>, <<"e">>, <<"*", "f">> }

\* Mutant: no pattern is taken for absolute.
IsAbsolute_Never(pattern) == FALSE

\* "Must be relative, meaning it cannot begin with '/'"
IsAbsolute(pattern) == pattern # << >> /\ pattern[1] = "/"

\* q is below p by the segments of the pattern ("*" is any name).
Matches(p, pattern, q) ==
    /\ Len(q) = Len(p) + Len(pattern)
    /\ IsPrefix(p, q)
    /\ \A i \in 1 .. Len(pattern) : pattern[i] \in {"*", q[Len(p) + i]}

\* What glob raises ("None": the generator ends without an exception).
glob_raises(b, tree, p, pattern, f) ==
    IF IsAbsolute(pattern) THEN "NotImplementedError"
    ELSE LET exc == Raises(b, "list_files", Resolve(tree, p), f)
         IN  IF exc = "ok" THEN "None" ELSE exc

\* What glob yields: for a directory, the existing paths below it that
\* match; nothing for what is no directory, and nothing when it raises.
glob_yields(b, tree, p, pattern, f) ==
    IF glob_raises(b, tree, p, pattern, f) # "None" \/ ~is_dir(tree, p) THEN {}
    ELSE { q \in Paths : Matches(p, pattern, q) /\ exists(tree, q) }

\* list(path.glob(pattern))
Path_glob(p, pattern, f) ==
    MethodCall(GlobArgs("glob", p, pattern),
               glob_raises(backend, fs, p, pattern, f), fs,
               glob_yields(backend, fs, p, pattern, f), <<"glob">>, f)

\* What is compared: <<class, container, path>>. A LocalPath and a str have
\* no container.
Containers == {"workload", "sidecar"}
ComparedPaths == { <<"d">>, <<"d", "e">> }
PathHandles ==
    { <<"LocalPath", "-", p>> : p \in ComparedPaths }
        \cup { <<"ContainerPath", c, p>> : c \in Containers, p \in ComparedPaths }
Objects == PathHandles \cup { <<"str", "-", <<"d">>>> }

CompareOps == {"__eq__", "__lt__", "__le__", "__gt__", "__ge__"}
Reflected(op) ==
    CASE op = "__lt__" -> "__gt__"
      [] op = "__le__" -> "__ge__"
      [] op = "__gt__" -> "__lt__"
      [] op = "__ge__" -> "__le__"
      [] OTHER -> "__eq__"

\* The order of path components as strings.
Ord(name) ==
    CASE name = "d" -> 1 [] name = "e" -> 2 [] name = "f" -> 3 [] OTHER -> 4

RECURSIVE PartsLess(_, _)
PartsLess(a, b) ==
    IF a = << >> THEN b # << >>
    ELSE IF b = << >> THEN FALSE
    ELSE IF Head(a) = Head(b) THEN PartsLess(Tail(a), Tail(b))
    ELSE Ord(Head(a)) < Ord(Head(b))

\* Comparison by path.
ByPath(op, a, b) ==
    LET holds == CASE op = "__eq__" -> a = b
                   [] op = "__lt__" -> PartsLess(a, b)
                   [] op = "__le__" -> a = b \/ PartsLess(a, b)
                   [] op = "__gt__" -> PartsLess(b, a)
                   [] OTHER -> a = b \/ PartsLess(b, a)
    IN  IF holds THEN "True" ELSE "False"

\* Mutant: any two ContainerPaths are comparable.
Comparable_AnyContainer(self, other) ==
    self[1] = "ContainerPath" /\ other[1] = "ContainerPath"

\* "A ContainerPath is only comparable to another object if it is also a
\* ContainerPath on the same ops.Container."
Comparable(self, other) ==
    /\ self[1] = "ContainerPath"
    /\ other[1] = "ContainerPath"
    /\ self[2] = other[2]

\* self.op(other), the method: a ContainerPath answers by path to what it is
\* comparable to, and else False for __eq__ and NotImplemented for the
\* orderings; a LocalPath (a pathlib path) answers by path to a LocalPath
\* and else NotImplemented; so does a str to whatever is no str.
Method(self, op, other) ==
    IF self[1] = "ContainerPath" THEN
        IF Comparable(self, other) THEN ByPath(op, self[3], other[3])
        ELSE IF op = "__eq__" THEN "False"
        ELSE "NotImplemented"
    ELSE IF self[1] = other[1] THEN ByPath(op, self[3], other[3])
    ELSE "NotImplemented"

\* What the methods called for `left op right` return, in order: the left
\* operand's, then, if that was NotImplemented, the right operand's
\* reflected one.
MethodsCalled(left, op, right) ==
    IF Method(left, op, right) # "NotImplemented" THEN <<Method(left, op, right)>>
    ELSE <<"NotImplemented", Method(right, Reflected(op), left)>>

\* The value of `left op right`: when both methods return NotImplemented,
\* == is identity (False for two objects) and an ordering raises TypeError.
Operator(left, op, right) ==
    LET m == MethodsCalled(left, op, right) IN
    IF m[Len(m)] # "NotImplemented" THEN m[Len(m)]
    ELSE IF op = "__eq__" THEN "False"
    ELSE "TypeError"

\* left == right, left < right, ...
Compare(left, op, right) ==
    MethodCall(CompareArgs(op, left, right), Operator(left, op, right), fs, {},
               MethodsCalled(left, op, right), "none")

\* The errors the Pebble client raises: a PathError of each kind, an
\* APIError of each code, each with each message, and a ConnectionError.
PathErrorKinds == {"not-found", "permission-denied", "generic-file-error"}
APIErrorCodes == {400, 404, 500}
Messages ==
    {MsgNoEnt, MsgNotEmpty, MsgNotDir, MsgExists, MsgOnlyRegular, MsgLookup, MsgPerm,
     MsgBusy, MsgInternal, MsgLoop, MsgTwo}
PebbleErrors ==
    { PathError(kind, message) : kind \in PathErrorKinds, message \in Messages }
        \cup { APIError(code, message) : code \in APIErrorCodes, message \in Messages }
        \cup { ConnectionError }

\* The error kinds of _errors.py, each with its matcher.
Matchers ==
    {"FileNotFoundError", "PermissionError", "FileExistsError", "NotADirectoryError",
     "IsADirectoryError", "LookupError", "TooManyLevelsOfSymbolicLinks"}
Takes(kind, error) ==
    CASE kind = "FileNotFoundError" -> raise_if_matches_file_not_found(error)
      [] kind = "PermissionError" -> Permission_matches(error)
      [] kind = "FileExistsError" -> raise_if_matches_file_exists(error)
      [] kind = "NotADirectoryError" -> matches_not_a_directory(error)
      [] kind = "IsADirectoryError" -> raise_if_matches_is_a_directory(error)
      [] kind = "LookupError" -> raise_if_matches_lookup(error)
      [] OTHER -> TooManyLevelsOfSymbolicLinks_matches(error)

\* An error is handed to every matcher.
Classify(error) ==
    MethodCall(ClassifyArgs("classify", error), "None", fs,
               { kind \in Matchers : Takes(kind, error) }, <<"classify">>, "none")

NextErrors == \E error \in PebbleErrors : Classify(error)

SpecErrors == Init /\ [][NextErrors]_vars

NextPath ==
    \/ \E p \in Paths, mode \in DirModes, parents \in BOOLEAN, exist_ok \in BOOLEAN,
          user \in UserArgs, group \in GroupArgs, f \in Faults(backend, "make_dir") :
            Path_mkdir(p, mode, parents, exist_ok, user, group, f)
    \/ \E p \in Paths, pattern \in Patterns, f \in Faults(backend, "list_files") :
            Path_glob(p, pattern, f)
    \/ \E left \in PathHandles, op \in CompareOps, right \in Objects :
            Compare(left, op, right)

SpecPath == Init /\ [][NextPath]_vars

\* --------------------------------------------------------------- sanity

TypeOK ==
    /\ backend \in Backends
    /\ WellFormed(fs)
    /\ WellFormed(pre)
    /\ ncalls \in 0 .. MaxCalls
    /\ pc = "done" <=> (result # "-" \/ call = NoCall)


\* ------------------------------------------------------------------ claims

Returned == pc = "done" /\ result \in {"True", "False", "None"}
EnsureDone == pc = "done" /\ call.op = "ensure_contents"
EnsureReturned == EnsureDone /\ result \in {"True", "False"}
RemoveDone == pc = "done" /\ call.op = "remove_path"

\* An ensure_contents that returned, right after one with the same
\* arguments that returned too.
SecondOfTwo == EnsureReturned /\ prev.same /\ prev.result \in {"True", "False"}

\* C1 as stated: of two ensure_contents calls in succession with identical
\* arguments, the first returns True and the second False, and the path then
\* reads as the content asked for.
C1_FirstTrueSecondFalse ==
    SecondOfTwo =>
        /\ prev.result = "True"
        /\ result = "False"
        /\ Node(fs, call.path).data = call.source

\* C1 as amended: when both calls return, the second returns False and the
\* path then reads as the content asked for; the first returns True exactly
\* when the path was not already a file as asked for (it returns False, too,
\* for a file that already matched).
C1_SecondFalse ==
    SecondOfTwo =>
        /\ result = "False"
        /\ Node(fs, call.path).kind = "file"
        /\ Node(fs, call.path).data = call.source
        /\ (prev.result = "True" <=> ~prev.satisfied)

C1_Witness == SecondOfTwo /\ prev.result = "True" /\ result = "False"

\* C2: whenever ensure_contents returns (True or False), the path is a file
\* with the bytes of source, the permission bits of mode, the owner asked for
\* if one was, and the group asked for if one was.
C2_ReturnEstablishes == EnsureReturned => Satisfies(fs, call)

C2_Witness ==
    /\ EnsureReturned /\ result = "True"
    /\ call.user # None /\ call.group # None
    /\ pre[call.path].kind = "file"
    /\ pre[call.path].user # call.user
    /\ pre[call.path].group # call.group
    /\ pre[call.path].perm # call.mode
    /\ pre[call.path].data # call.source

\* C3: ensure_contents returns True, having made the write with the mode,
\* user and group asked for, exactly when at its check the path was absent or
\* differed from the request in permission bits, in an owner or group asked
\* for, or in content; so for a file with the content and owner asked for
\* but mode 0o600, a call with mode 0o644 returns True and leaves mode 0o644.
C3_TrueIffNeeded ==
    EnsureReturned =>
        /\ result = "True" <=> ~Satisfies(pre, call)
        /\ result = "True" =>
            /\ log[Len(log)] = "write"
            /\ fs[call.path] =
                 File(call.mode,
                      OwnerAfterWrite(backend, pre[call.path].kind = "file",
                                      pre[call.path].user, call.user, DefaultUser),
                      OwnerAfterWrite(backend, pre[call.path].kind = "file",
                                      pre[call.path].group, call.group, DefaultGroup),
                      call.source)

C3_Witness ==
    /\ EnsureReturned /\ result = "True"
    /\ pre[call.path] = File(384, "app", "app", call.source)
    /\ call.mode = 420 /\ call.user = "app"
    /\ fs[call.path].perm = 420

\* C4: when ensure_contents returns False it has made the metadata query and
\* the content read and no other backend call (no mkdir, no write), and the
\* filesystem is as before the call: content, mode, owner, group and
\* modification time of every path.
C4_FalseTouchesNothing ==
    (EnsureDone /\ result = "False") =>
        /\ log = <<"stat", "read">>
        /\ fs = pre
        /\ touched = {}

C4_Witness ==
    /\ EnsureDone /\ result = "False"
    /\ pre[call.path].kind = "file"
    /\ Len(log) = 2

\* C5: for a file whose permission bits equal mode and whose content equals
\* source, ensure_contents with user=None and group=None returns False
\* whatever the file's owner and group, and with a user or a group that is
\* not the file's it returns True: owner and group are compared only when
\* given.
C5_OwnerComparedOnlyIfGiven ==
    (/\ EnsureDone /\ fault = "none"
     /\ Resolve(pre, call.path) = "ok"
     /\ pre[call.path].kind = "file"
     /\ pre[call.path].perm = call.mode
     /\ pre[call.path].data = call.source) =>
        /\ (call.user = None /\ call.group = None) => result = "False"
        /\ (call.user # None /\ call.user # pre[call.path].user) => result = "True"
        /\ (call.group # None /\ call.group # pre[call.path].group) => result = "True"
        /\ ((call.user = None \/ call.user = pre[call.path].user)
             /\ (call.group = None \/ call.group = pre[call.path].group)) => result = "False"

C5_Witness ==
    /\ EnsureDone /\ result = "False"
    /\ call.user = None /\ call.group = None
    /\ pre[call.path].user = "app" /\ pre[call.path].group = "app"


\* What the Pebble agent answered to the remove_path of the finished call.
RemoveReply ==
    PebbleReply(fault, OsRemove(pre, call.path, call.recursive).errno, "remove_path")

\* C6 as stated: remove_path(P, recursive=True) for a path that does not
\* exist returns without error and leaves the filesystem as it was, on both
\* backends; on the container also when the agent reports not-found.
C6_RecursiveAbsentReturns ==
    (/\ RemoveDone /\ call.recursive
     /\ Resolve(pre, call.path) = "ENOENT"
     /\ fault \in {"none", "notfound"}) =>
        /\ result = "None"
        /\ fs = pre

C8_NonRecursive ==
    (RemoveDone /\ ~call.recursive /\ fault = "none" /\ exists(pre, call.path)) =>
        IF pre[call.path].kind = "dir" /\ HasEntries(pre, call.path)
            THEN result = "DirectoryNotEmptyError" /\ fs = pre /\ touched = {}
            ELSE result = "None" /\ fs = Without(pre, {call.path})

C8_Witness ==
    /\ RemoveDone /\ ~call.recursive /\ fault = "none"
    /\ backend = "container"
    /\ pre[call.path].kind = "dir" /\ HasEntries(pre, call.path)
    /\ result = "DirectoryNotEmptyError"

\* C9: after remove_path(P, recursive=True) has returned for an existing
\* file or directory tree, neither P nor any path below it exists, and every
\* other path is as it was.
C9_RecursiveRemovesSubtree ==
    (RemoveDone /\ call.recursive /\ result = "None" /\ exists(pre, call.path)) =>
        /\ \A q \in Subtree(call.path) : fs[q].kind = "absent"
        /\ \A q \in Paths \ Subtree(call.path) : fs[q] = pre[q]

C9_Witness ==
    /\ RemoveDone /\ call.recursive /\ result = "None"
    /\ pre[call.path].kind = "dir"
    /\ \E q \in Below(call.path) : pre[q].kind = "file"
    /\ \E q \in Paths \ Subtree(call.path) :
          pre[q].kind = "file" /\ Parent(q) = Parent(call.path)

\* The exceptions that are error kinds of the path contract.
SharedKinds ==
    {"FileNotFoundError", "FileExistsError", "PermissionError", "NotADirectoryError",
     "IsADirectoryError", "DirectoryNotEmptyError", "LookupError", "ConnectionError"}

C11_UnreachableIsNotNotFound ==
    /\ ~raise_if_matches_file_not_found(ConnectionError)
    /\ fault = "conn" =>
        /\ pc = "done"
        /\ result = "ConnectionError"
        /\ (call.op = "ensure_contents" /\ log[1] = "stat" /\ Len(log) = 1) =>
               (fs = pre /\ touched = {})
        /\ call.op = "remove_path" => (log = <<"remove_path">> /\ fs = pre)

C11_Witness ==
    /\ EnsureDone /\ fault = "conn" /\ log = <<"stat">>
    /\ result = "ConnectionError"
    /\ ~exists(pre, call.path)

\* The backend call `name` is among those the call has made.
InLog(name) == \E i \in 1 .. Len(log) : log[i] = name

\* C12: the only failure ensure_contents swallows is not-found from its
\* metadata query, after which it goes on to mkdir and write. Every other
\* failure of the metadata query, and every failure of the content read, of
\* the parent mkdir and of the write, ends the call at that backend call with
\* an exception: the call then returns neither True nor False.
C12_OnlyNotFoundSwallowed ==
    EnsureDone =>
        LET p == call.path
            up == mkdir(pre, Parent(p), DEFAULT_MKDIR_MODE, TRUE, TRUE, None, None)
            wr == OsWrite(backend, up.fs, p, call.source, call.mode, call.user, call.group)
            raised == result \notin {"True", "False"}
            last == log[Len(log)]
        IN  /\ fault # "none" => raised
            /\ OsStat(pre, p).errno \notin {"ok", "ENOENT"} =>
                   (raised /\ log = <<"stat">>)
            /\ (OsStat(pre, p).errno = "ENOENT" /\ (fault = "none" \/ Len(log) > 1)) =>
                   (Len(log) > 1 /\ log[2] = "mkdir")
            /\ (InLog("read") /\ OsRead(pre, p).errno # "ok") =>
                   (raised /\ last = "read")
            /\ (InLog("mkdir") /\ up.errno # "ok") => (raised /\ last = "mkdir")
            /\ (InLog("write") /\ wr.errno # "ok") => (raised /\ last = "write")
            /\ ~raised => fault = "none"

C12_Witness ==
    /\ EnsureDone
    /\ OsStat(pre, call.path).errno = "ENOENT"
    /\ log = <<"stat", "mkdir", "write">>
    /\ fault = "perm"
    /\ result = "PermissionError"

\* A content read that fails on what the path is: the metadata of a
\* directory matched the request.
C12_ReadRaises ==
    /\ EnsureDone
    /\ log = <<"stat", "read">>
    /\ result = "IsADirectoryError"

\* C13: ensure_contents holds no lock between its check and its write and
\* does not look again: when another process has written the path after the
\* check (while the call stood before its mkdir or its write) and no backend
\* call fails, ensure_contents still returns True after one metadata query,
\* at most one read, one mkdir and one write, and the path holds the content
\* of ensure_contents; what the other process wrote is gone, unseen.
C13_LostUpdate ==
    (/\ EnsureDone /\ fault = "none"
     /\ rival # << >>
     /\ rival[1] \in {"mkdir", "write"}) =>
        /\ result = "True"
        /\ log \in {<<"stat", "mkdir", "write">>, <<"stat", "read", "mkdir", "write">>}
        /\ fs[call.path].kind = "file"
        /\ fs[call.path].data = call.source
        /\ fs[call.path].perm = call.mode

C13_Witness ==
    /\ EnsureDone /\ result = "True"
    /\ rival # << >>
    /\ rival[1] = "mkdir"
    /\ rival[2] # call.source
    /\ pre[call.path].kind = "file"
    /\ log = <<"stat", "read", "mkdir", "write">>
    /\ fs[call.path].data = call.source

MkdirDone == pc = "done" /\ call.op = "mkdir"

\* A mkdir(parents=True, exist_ok=True) that no outside failure ended, right
\* after one with the same arguments that no outside failure ended either.
SecondMkdir ==
    /\ MkdirDone /\ call.parents /\ call.exist_ok
    /\ fault = "none"
    /\ prev.same
    /\ prev.result \in {"None", "FileExistsError", "NotADirectoryError"}

\* C14 as stated: for every path, the second of two calls
\* mkdir(parents=True, exist_ok=True) in succession raises no error and
\* leaves the kind, permission bits, owner and group of the path and of its
\* ancestors as they were.
C14_SecondMkdirNoError ==
    SecondMkdir =>
        /\ result = "None"
        /\ \A q \in Ancestors(call.path) \cup {call.path} : fs[q] = pre[q]

\* C14 as amended: when the first of two calls mkdir(parents=True,
\* exist_ok=True) in succession returned, the second returns too, and it
\* leaves the kind, permission bits, owner and group of every path as they
\* were; when the first raised (the path is a regular file, or lies below
\* one) the second raises the same and changes nothing either.
C14_SecondMkdirAsFirst ==
    SecondMkdir =>
        /\ prev.result = "None" => result = "None"
        /\ result = prev.result
        /\ fs = pre

C14_Witness ==
    /\ SecondMkdir /\ prev.result = "None" /\ result = "None"
    /\ Len(call.path) = 3
    /\ call.mode = 448 /\ call.user = "app" /\ call.group = None
    /\ fs[call.path] = Dir(448, "app", DefaultGroup)
    /\ fs[Parent(call.path)] = Dir(DEFAULT_MKDIR_MODE, DefaultUser, DefaultGroup)

C15_ExistsRaises ==
    /\ MkdirDone /\ fault = "none"
    /\ call.parents /\ ~call.exist_ok
    /\ is_dir(pre, call.path)
    /\ result = "FileExistsError"

GlobDone == pc = "done" /\ call.op = "glob"

\* C16: glob with a pattern that begins with "/" raises NotImplementedError
\* on both backends, whatever the path is (missing, a file, a directory with
\* or without entries) and whether or not the backend can be reached; it
\* yields no path and does not end as an empty result.
C16_AbsoluteGlobRaises ==
    (GlobDone /\ call.pattern[1] = "/") =>
        /\ result = "NotImplementedError"
        /\ yielded = {}

C16_Witness ==
    /\ GlobDone /\ call.pattern = <<"/", "*">>
    /\ backend = "container"
    /\ glob_yields(backend, pre, call.path, <<"*">>, "none") # {}
    /\ result = "NotImplementedError"

\* A glob by a relative pattern that yields.
C16_RelativeYields == GlobDone /\ result = "None" /\ yielded # {}

CompareDone == pc = "done" /\ call.op \in CompareOps

\* C17: in a comparison with a ContainerPath on either side, == is True only
\* for two ContainerPaths on the same container with the same path, so
\* False for a LocalPath or a str of the same path and for a ContainerPath
\* on another container; and an ordering (<, <=, >, >=) of a ContainerPath
\* with what is no ContainerPath on its container gets NotImplemented from
\* every method asked, and no boolean.
C17_RemoteComparison ==
    CompareDone =>
        LET a == call.left
            b == call.right
            remote(x) == x[1] = "ContainerPath"
            same == remote(a) /\ remote(b) /\ a[2] = b[2]
        IN  (remote(a) \/ remote(b)) =>
                /\ call.op = "__eq__" =>
                       result = (IF same /\ a[3] = b[3] THEN "True" ELSE "False")
                /\ (call.op # "__eq__" /\ ~same) =>
                       /\ result \notin {"True", "False"}
                       /\ \A i \in 1 .. Len(log) : log[i] = "NotImplemented"
                /\ (call.op # "__eq__" /\ same) => result \in {"True", "False"}

C17_Witness ==
    /\ CompareDone /\ call.op = "__lt__"
    /\ call.left = <<"ContainerPath", "workload", <<"d">>>>
    /\ call.right = <<"ContainerPath", "sidecar", <<"d", "e">>>>
    /\ log = <<"NotImplemented", "NotImplemented">>
    /\ result = "TypeError"

\* A LocalPath and a ContainerPath of one path, compared with ==.
C17_LocalIsNotRemote ==
    /\ CompareDone /\ call.op = "__eq__"
    /\ call.left = <<"LocalPath", "-", <<"d">>>>
    /\ call.right = <<"ContainerPath", "workload", <<"d">>>>
    /\ result = "False"

\* The backend calls of ensure_contents in their order, with and without
\* the content read.
EnsureCalls ==
    {<<"stat", "read", "mkdir", "write">>, <<"stat", "mkdir", "write">>}

\* C18: at every point of an ensure_contents call the backend calls made so
\* far are the metadata query, then (if at all) the content read, then the
\* parent mkdir, then the write, each at most once; a content read was made
\* only after the metadata query returned a FileInfo whose metadata matched;
\* a mkdir was made only when the file was not as asked for, never in a call
\* that returns False; nothing was written before the metadata query.
C18_CallOrder ==
    call.op = "ensure_contents" =>
        /\ \E calls \in EnsureCalls, n \in 0 .. 4 :
               n <= Len(calls) /\ log = SubSeq(calls, 1, n)
        /\ pc # "stat" => (Len(log) > 0 /\ log[1] = "stat")
        /\ pc = "stat" => (log = << >> /\ fs = pre)
        /\ InLog("read") =>
               /\ info # NoInfo
               /\ MetadataMatches(info, call.mode, call.user, call.group)
        /\ InLog("mkdir") => ~Satisfies(pre, call)
        /\ (~InLog("write") \/ pc # "done" \/ result # "True") => fs[call.path] = pre[call.path]
        /\ result = "False" => (~InLog("mkdir") /\ ~InLog("write"))

C18_Witness ==
    /\ EnsureDone /\ result = "True"
    /\ log = <<"stat", "read", "mkdir", "write">>
    /\ Len(call.path) = 3

\* C19: when ensure_contents has to write (the path is not a file as asked
\* for, is no directory and lies below no regular file) and no backend call
\* fails from outside, it returns True whatever part of the parent chain is
\* missing; after a True return every ancestor of the path is a directory:
\* one that was there is as it was (permission bits, owner, group), one that
\* was missing has the default mode of mkdir and the default ownership.
C19_ParentChain ==
    EnsureDone =>
        /\ (/\ fault = "none"
            /\ ~Satisfies(pre, call)
            /\ Resolve(pre, call.path) # "ENOTDIR"
            /\ pre[call.path].kind # "dir") => result = "True"
        /\ result = "True" =>
               \A a \in Ancestors(call.path) :
                   /\ fs[a].kind = "dir"
                   /\ pre[a].kind = "dir" => fs[a] = pre[a]
                   /\ pre[a].kind = "absent" =>
                          fs[a] = Dir(DEFAULT_MKDIR_MODE, DefaultUser, DefaultGroup)

C19_Witness ==
    /\ EnsureDone /\ result = "True"
    /\ call.path = <<"d", "e", "f">>
    /\ pre[<<"d">>] = Dir(448, "app", "root")
    /\ pre[<<"d", "e">>].kind = "absent"
    /\ fs[<<"d">>] = Dir(448, "app", "root")
    /\ fs[<<"d", "e">>].kind = "dir"

\* The whole parent chain is missing.
C19_WholeChain ==
    /\ EnsureDone /\ result = "True"
    /\ call.path = <<"d", "e", "f">>
    /\ pre = EmptyFS

\* The kinds _remove_container_path tries for a PathError, in its order.
KindsTried == <<"DirectoryNotEmptyError", "FileNotFoundError", "PermissionError">>

\* The PathError is of the kind.
IsOfKind(error, kind) ==
    CASE kind = "DirectoryNotEmptyError" ->
             error.kind = "generic-file-error"
                 /\ Contains(error.message, <<"directory", "not", "empty">>)
      [] kind = "FileNotFoundError" -> error.kind = "not-found"
      [] OTHER -> error.kind = "permission-denied"

\* C20: remove_path of a ContainerPath makes one Pebble call, remove_path
\* with the recursive flag of the caller, and no other (no list_files): when
\* the call returns, the filesystem is what that one remove with that flag
\* leaves; when it fails with a PathError, the exception is the first of
\* directory-not-empty, not-found, permission-denied that the error matches
\* (the PathError itself when it matches none), and nothing is removed.
C20_OneRemoveCall ==
    (call.op = "remove_path" /\ backend = "container") =>
        /\ pc # "done" => log = << >>
        /\ pc = "done" =>
            LET e == RemoveReply
                a == OsRemove(pre, call.path, call.recursive)
                first == { i \in 1 .. 3 :
                             /\ IsOfKind(e, KindsTried[i])
                             /\ \A j \in 1 .. (i - 1) : ~IsOfKind(e, KindsTried[j]) }
            IN  /\ log = <<"remove_path">>
                /\ e.type = "NoError" => (result = "None" /\ fs = a.fs)
                /\ e.type # "NoError" => fs = pre
                /\ e.type = "PathError" =>
                       /\ \A i \in first : result = KindsTried[i]
                       /\ first = {} => result = "PathError"

C20_Witness ==
    /\ RemoveDone /\ backend = "container"
    /\ call.recursive
    /\ pre[call.path].kind = "dir" /\ HasEntries(pre, call.path)
    /\ fault = "perm"
    /\ result = "PermissionError"
    /\ log = <<"remove_path">>

\* One call with recursive=True has removed a tree.
C20_TreeInOneCall ==
    /\ RemoveDone /\ backend = "container"
    /\ call.recursive /\ result = "None"
    /\ \E q \in Below(call.path) : pre[q].kind # "absent"
    /\ log = <<"remove_path">>

ClassifyDone == pc = "done" /\ call.op = "classify"

\* The kinds told apart by the message of a generic-file-error.
GenericKinds ==
    {"FileExistsError", "NotADirectoryError", "IsADirectoryError", "LookupError"}

\* C21: the matchers take an error by its class and kind (or code), and by
\* its message only for a generic-file-error PathError and a 400 APIError:
\* not-found is an APIError 404 or a PathError of kind not-found, and
\* nothing else; permission-denied is a PathError of kind permission-denied,
\* and nothing else; file-exists, not-a-directory, is-a-directory and lookup
\* are PathErrors of kind generic-file-error whose message contains "file
\* exists", "not a directory", "can only read a regular file", "cannot look
\* up user and group"; too-many-levels is an APIError 400 whose message
\* contains "too many levels of symbolic links". A PathError of kind
\* not-found or permission-denied is none of the four generic kinds,
\* whatever its message.
C21_ClassifiedByKindFirst ==
    ClassifyDone =>
        LET e == call.error
            path == e.type = "PathError"
            generic == path /\ e.kind = "generic-file-error"
            says(words) == Contains(e.message, words)
        IN  /\ "FileNotFoundError" \in yielded <=>
                   \/ (e.type = "APIError" /\ e.code = 404)
                   \/ (path /\ e.kind = "not-found")
            /\ "PermissionError" \in yielded <=> (path /\ e.kind = "permission-denied")
            /\ "FileExistsError" \in yielded <=> (generic /\ says(<<"file", "exists">>))
            /\ "NotADirectoryError" \in yielded <=>
                   (generic /\ says(<<"not", "a", "directory">>))
            /\ "IsADirectoryError" \in yielded <=>
                   (generic /\ says(<<"can", "only", "read", "a", "regular", "file">>))
            /\ "LookupError" \in yielded <=>
                   (generic /\ says(<<"cannot", "look", "up", "user", "and", "group">>))
            /\ "TooManyLevelsOfSymbolicLinks" \in yielded <=>
                   (/\ e.type = "APIError" /\ e.code = 400
                    /\ says(<<"too", "many", "levels", "of", "symbolic", "links">>))
            /\ (path /\ e.kind \in {"not-found", "permission-denied"}) =>
                   yielded \cap GenericKinds = {}

C21_Witness ==
    /\ ClassifyDone
    /\ call.error = PathError("not-found", MsgOnlyRegular)
    /\ yielded = {"FileNotFoundError"}

\* A generic-file-error whose message has the words of two kinds.
C21_TwoKinds ==
    /\ ClassifyDone
    /\ call.error = PathError("generic-file-error", MsgTwo)
    /\ yielded = {"FileExistsError", "NotADirectoryError"}

\* C22 as stated: remove_path(P, recursive=True) of a local path does not
\* raise FileNotFoundError, also when another process removes the path or
\* entries below it between the exists() check, the is_dir() check and the
\* unlink or rmtree of the call.
C22_RecursiveNeverNotFound ==
    (RemoveDone /\ backend = "local" /\ call.recursive) =>
        result # "FileNotFoundError"

\* The path was there at exists(), another process removed it before the
\* unlink, and the call raised FileNotFoundError.
C22_RemovedBeforeUnlink ==
    /\ RemoveDone /\ backend = "local" /\ call.recursive
    /\ pre[call.path].kind = "file"
    /\ rival = <<"unlink", "removed">>
    /\ log = <<"exists", "is_dir", "unlink">>
    /\ fault = "none"
    /\ result = "FileNotFoundError"

\* C23 as stated: when ensure_contents raises, the filesystem is as it was
\* before the call: no parent directory was created and the path is
\* untouched.
C23_RaiseLeavesUnchanged ==
    (EnsureDone /\ result \notin {"True", "False"}) =>
        /\ fs = pre
        /\ touched = {}

\* The parent chain was missing, mkdir created it, the write then failed: the
\* call raised and the directories are there.
C23_ParentsLeftBehind ==
    /\ EnsureDone /\ result = "PermissionError"
    /\ log = <<"stat", "mkdir", "write">>
    /\ pre = EmptyFS
    /\ call.path = <<"d", "e", "f">>
    /\ fs[<<"d">>].kind = "dir" /\ fs[<<"d", "e">>].kind = "dir"
    /\ fs[call.path].kind = "absent"

====
